---- MODULE Spec2Model ----
(***************************************************************************)
(* Model of the main-memory Allocator facade (Allocator_impl.hpp):         *)
(* allocate / reallocate / free and the two structured builders            *)
(* allocateArray and allocateByteString, on top of the host primitive      *)
(* alloc.Allocate / alloc.Realloc / alloc.Free.                            *)
(*                                                                         *)
(* size_t and int are modelled with scaled widths (WordBits, IntBits) so   *)
(* that wrap-around of the size arithmetic and the narrowing cast of the   *)
(* dimension sizes are reachable.  The template parameter MC (memory       *)
(* context) is not passed on to any callee by any function of the file and *)
(* is left out; ZM and F are kept because the builders fix or forward them.*)
(*                                                                         *)
(* The module also models the two example aggregates of udf/uda-test.cc,   *)
(* Min(string) and Count(int), each under its own specification (SpecMin,  *)
(* SpecCount), driven over a growing list of inputs with the partial       *)
(* states merged at any split.                                             *)
(***************************************************************************)
EXTENDS Integers, Sequences, FiniteSets, TLC

(* ----------------------------- widths and bounds ----------------------- *)

\* width of std::size_t / uintptr_t (scaled)
WordBits == 8
\* width of int (scaled), less than WordBits as on LP64
IntBits == 4
\* most blocks the host has handed out and not yet taken back
MaxLive == 2
\* most input rows given to an aggregate
MaxInputs == 3
\* longest input string of Min
MaxStrLen == 2

SizeMax == 2 ^ WordBits
IntMod == 2 ^ IntBits

NULL == 0
Alignment == 16

\* BOOST_PP_REPEAT(MADLIB_MAX_ARRAY_DIMS, ...): allocateArray takes 1..this many sizes
MADLIB_MAX_ARRAY_DIMS == 2

\* sizeof(ArrayType): &array[1] is this many bytes after the block start
sizeofArrayType == 16
\* per-dimension metadata in the array header
DimFieldSize == 8
\* ByteString::kEffectiveHeaderSize
kEffectiveHeaderSize == 8

\* sizeof(T) for the element types used
ElemSizes == {1, 4, 8}
\* dimension sizes handed to allocateArray
DimChoices == {0, 3, 4, IntMod \div 2, SizeMax \div 2, SizeMax - 1}
\* byte counts handed to allocate / reallocate / allocateByteString
SizeChoices == {0, 1, 16, SizeMax - 1}
\* addresses the host may return: 16-aligned, 8-aligned and 1-aligned ones
HostAddrs == {16, 17, 24, 32}

ZeroMemory == {"DoZero", "DoNotZero"}
OnFailure == {"ThrowBadAlloc", "ReturnNULL"}
Fills == {"zero", "junk"}

DimTuples == UNION {[1..D -> DimChoices] : D \in 1..MADLIB_MAX_ARRAY_DIMS}

VARIABLES
    hostLive,   \* addresses the host primitive returned and has not released
    owned,      \* non-null pointers the facade returned that the caller still holds
    call,       \* the last facade call: its inputs, host calls made, and result
    minRun,     \* one evaluation of the Min(string) aggregate
    countRun    \* one evaluation of the Count(int) aggregate

vars == <<hostLive, owned, call, minRun, countRun>>

allocVars == <<hostLive, owned, call>>

(* ----------------------------- pure helpers ---------------------------- *)

\* static_cast<int>(std::size_t): reduce to the int width, two's complement
ToInt(x) ==
    LET m == x % IntMod
    IN  IF m >= IntMod \div 2 THEN m - IntMod ELSE m

\* ARR_OVERHEAD_NONULLS(ndims): header size H(D)
ARR_OVERHEAD_NONULLS(D) == sizeofArrayType + D * DimFieldSize

RECURSIVE MulLoop(_, _, _)
MulLoop(dims, i, acc) ==
    IF i > Len(dims) THEN acc
    ELSE MulLoop(dims, i + 1, (acc * dims[i]) % SizeMax)

\* numElements = Dimensions ? 1 : 0; for (...) numElements *= inNumElements[i];
ArrayNumElements(dims) == MulLoop(dims, 1, IF Len(dims) # 0 THEN 1 ELSE 0)

ArraySizeFixedHeader(dims, E) ==
    (((E * ArrayNumElements(dims)) % SizeMax) + ARR_OVERHEAD_NONULLS(0)) % SizeMax

\* size = sizeof(T) * numElements + ARR_OVERHEAD_NONULLS(Dimensions), in size_t
ArraySize(dims, E) ==
    (((E * ArrayNumElements(dims)) % SizeMax) + ARR_OVERHEAD_NONULLS(Len(dims)))
        % SizeMax

ByteStringRequestPayloadOnly(inSize) == inSize

\* ByteString::kEffectiveHeaderSize + inSize, in size_t
ByteStringRequest(inSize) == (kEffectiveHeaderSize + inSize) % SizeMax

\* makeAligned (compiled out): next 16-byte boundary after the raw address
AllocateResultAligned(raw) ==
    IF raw = NULL THEN NULL ELSE (raw - (raw % Alignment)) + Alignment

\* allocate: return alloc.Allocate(inSize);
AllocateResult(raw) == raw

\* reallocate: return alloc.Realloc(inPtr, inSize);
ReallocateResult(raw) == raw

FreeCallsHostAlways(inPtr) == TRUE

\* free: if (inPtr == NULL) return;
FreeCallsHost(inPtr) == inPtr # NULL

\* free: alloc.Free(inPtr);
HostFreeArg(inPtr) == inPtr

(* ----------------------------- records --------------------------------- *)

NoHandle ==
    [kind |-> "none", base |-> NULL, ptr |-> NULL, len |-> 0, ndims |-> 0,
     dims |-> <<>>]

\* MutableArrayHandle<T>(array): a view of the header the facade just wrote
ArrayHandle(base, dims) ==
    [kind |-> "array", base |-> base, ptr |-> (base + sizeofArrayType) % SizeMax,
     len |-> ArrayNumElements(dims), ndims |-> Len(dims),
     dims |-> [i \in 1..Len(dims) |-> ToInt(dims[i])]]

\* MutableByteString(byteString, total): payload follows the fixed header
MutableByteString(base, total) ==
    [kind |-> "bytes", base |-> base,
     ptr |-> (base + kEffectiveHeaderSize) % SizeMax,
     len |-> (total + SizeMax - kEffectiveHeaderSize) % SizeMax,
     ndims |-> 0, dims |-> <<>>]

HostCall(prim, ptr, size) == [prim |-> prim, ptr |-> ptr, size |-> size]

NoCall ==
    [op |-> "none", F |-> "ThrowBadAlloc", ZM |-> "DoNotZero", inPtr |-> NULL,
     inSize |-> 0, dims |-> <<>>, elemSize |-> 0, hostCalls |-> <<>>,
     raised |-> "none", raw |-> NULL, ret |-> NULL, fill |-> "zero", handle |-> NoHandle,
     ub |-> "none", outcome |-> "returned"]

\* StringVal::null()
NullString == [is_null |-> TRUE, str |-> <<>>]

\* StringVal("..."): a non-null string of the given bytes
StringVal(bytes) == [is_null |-> FALSE, str |-> bytes]

\* the intermediate buffer of sizeof(MinState) bytes as the harness hands it
\* to MinInit: value (has = value != NULL, buf = the buffer_len bytes it
\* points to), len, buffer_len
RawMinState(len) == [has |-> FALSE, buf |-> <<>>, len |-> len, buffer_len |-> 0]

\* no aggregate is being evaluated
NoRun ==
    [phase |-> "idle", seen |-> <<>>, cur |-> 0, dst |-> 0, merged |-> FALSE,
     pending |-> FALSE, result |-> 0]

(* ----------------------------- host primitive -------------------------- *)

\* what alloc.Allocate may answer: null, or an address it has not handed out
HostAllocResults ==
    {NULL} \cup (IF Cardinality(hostLive) < MaxLive THEN HostAddrs \ hostLive ELSE {})

\* what alloc.Realloc(p, ..) may answer: null (p stays), p itself, or a fresh address
HostReallocResults(p) == {NULL, p} \cup (HostAddrs \ hostLive)

\* the caller is between calls: the previous call's result has been taken
Running == call.op = "none"

(* ----------------------------- operations ------------------------------ *)

Init ==
    /\ hostLive = {}
    /\ owned = {}
    /\ call = NoCall
    /\ minRun = NoRun
    /\ countRun = NoRun

\* Allocator::allocate<MC, ZM, F>(inSize)
Allocate ==
    /\ Running
    /\ UNCHANGED <<minRun, countRun>>
    /\ \E ZM \in ZeroMemory, F \in OnFailure, inSize \in SizeChoices,
          raw \in HostAllocResults, fill \in Fills :
        LET ret == AllocateResult(raw) IN
        /\ hostLive' = hostLive \cup ({raw} \ {NULL})
        /\ owned' = owned \cup ({ret} \ {NULL})
        /\ call' = [NoCall EXCEPT !.op = "allocate", !.F = F, !.ZM = ZM,
                        !.inSize = inSize,
                        !.hostCalls = <<HostCall("Allocate", NULL, inSize)>>,
                        !.raw = raw, !.ret = ret,
                        !.fill = IF raw = NULL THEN "zero" ELSE fill]

\* Allocator::reallocate<MC, ZM, F>(inPtr, inSize)
Reallocate ==
    /\ Running
    /\ UNCHANGED <<minRun, countRun>>
    /\ \E ZM \in ZeroMemory, F \in OnFailure, inPtr \in owned,
          inSize \in SizeChoices, fill \in Fills :
        \E raw \in HostReallocResults(inPtr) :
        LET ret == ReallocateResult(raw) IN
        /\ hostLive' = IF raw = NULL THEN hostLive
                       ELSE (hostLive \ {inPtr}) \cup {raw}
        /\ owned' = IF ret = NULL THEN owned ELSE (owned \ {inPtr}) \cup {ret}
        /\ call' = [NoCall EXCEPT !.op = "reallocate", !.F = F, !.ZM = ZM,
                        !.inPtr = inPtr, !.inSize = inSize,
                        !.hostCalls = <<HostCall("Realloc", inPtr, inSize)>>,
                        !.raw = raw, !.ret = ret,
                        !.fill = IF raw = NULL THEN "zero" ELSE fill]

\* Allocator::free<MC>(inPtr)
Free ==
    /\ Running
    /\ UNCHANGED <<minRun, countRun>>
    /\ \E inPtr \in owned \cup {NULL} :
        /\ hostLive' = IF FreeCallsHost(inPtr) THEN hostLive \ {HostFreeArg(inPtr)}
                       ELSE hostLive
        /\ owned' = IF FreeCallsHost(inPtr) THEN owned \ {inPtr} ELSE owned
        /\ call' = [NoCall EXCEPT !.op = "free", !.inPtr = inPtr,
                        !.hostCalls =
                            IF FreeCallsHost(inPtr)
                            THEN <<HostCall("Free", HostFreeArg(inPtr), 0)>>
                            ELSE <<>>]

\* Allocator::internalAllocateArray<T, Dimensions, MC, ZM, F>(inNumElements)
InternalAllocateArray(dims, E, F) ==
    \E raw \in HostAllocResults, fill \in Fills, outcome \in {"returned", "crashed"} :
        LET size == ArraySize(dims, E)
            array == AllocateResult(raw)
            ub == IF array = NULL THEN "null_write"
                  ELSE IF size < ARR_OVERHEAD_NONULLS(Len(dims)) THEN "oob_write"
                  ELSE "none"
        IN
        /\ ub = "none" => outcome = "returned"
        /\ hostLive' = hostLive \cup ({raw} \ {NULL})
        /\ owned' = owned \cup ({array} \ {NULL})
        /\ call' = [NoCall EXCEPT !.op = "allocateArray", !.F = F, !.ZM = "DoZero",
                        !.dims = dims, !.elemSize = E, !.inSize = size,
                        !.hostCalls = <<HostCall("Allocate", NULL, size)>>,
                        !.raw = raw, !.ret = array,
                        !.fill = IF raw = NULL THEN "zero" ELSE fill,
                        !.handle = ArrayHandle(array, dims),
                        !.ub = ub, !.outcome = outcome]

\* allocateArray<T>(inDim0, ...): FunctionContext, DoZero, ThrowBadAlloc
AllocateArray ==
    /\ Running
    /\ UNCHANGED <<minRun, countRun>>
    /\ \E dims \in DimTuples, E \in ElemSizes :
        InternalAllocateArray(dims, E, "ThrowBadAlloc")

\* allocateArray<T, MC, ZM, F>(inDim0, ...)
AllocateArrayPolicy ==
    /\ Running
    /\ UNCHANGED <<minRun, countRun>>
    /\ \E dims \in DimTuples, E \in ElemSizes, ZM \in ZeroMemory, F \in OnFailure :
        InternalAllocateArray(dims, E, F)

\* internalAllocateArray instantiated with Dimensions = 0
AllocateArrayNoDims ==
    /\ Running
    /\ UNCHANGED <<minRun, countRun>>
    /\ \E E \in ElemSizes, F \in OnFailure : InternalAllocateArray(<<>>, E, F)

\* Allocator::allocateByteString<MC, ZM, F>(inSize)
AllocateByteString ==
    /\ Running
    /\ UNCHANGED <<minRun, countRun>>
    /\ \E ZM \in ZeroMemory, F \in OnFailure, inSize \in SizeChoices,
          raw \in HostAllocResults, fill \in Fills :
        LET req == ByteStringRequest(inSize)
            byteString == AllocateResult(raw)
        IN
        /\ hostLive' = hostLive \cup ({raw} \ {NULL})
        /\ owned' = owned \cup ({byteString} \ {NULL})
        /\ call' = [NoCall EXCEPT !.op = "allocateByteString", !.F = F,
                        !.ZM = "DoZero", !.inSize = inSize,
                        !.hostCalls = <<HostCall("Allocate", NULL, req)>>,
                        !.raw = raw, !.ret = byteString,
                        !.fill = IF raw = NULL THEN "zero" ELSE fill,
                        !.handle = MutableByteString(byteString,
                                       ByteStringRequest(inSize))]

\* the call has returned to the caller, which goes on to its next call; a call
\* that crashed the process has no continuation
Continue ==
    /\ call.op # "none"
    /\ call.outcome = "returned"
    /\ call' = NoCall
    /\ UNCHANGED <<hostLive, owned, minRun, countRun>>

Next ==
    \/ Continue
    \/ Allocate
    \/ Reallocate
    \/ Free
    \/ AllocateArray
    \/ AllocateArrayPolicy
    \/ AllocateArrayNoDims
    \/ AllocateByteString

Spec == Init /\ [][Next]_vars

(* ----------------------------- Min(string) ----------------------------- *)

\* byte values of the input strings ('A', 'B')
Bytes == {65, 66}

\* the input rows of Min: null, or a string of 0..MaxStrLen bytes
StringInputs ==
    {NullString} \cup {StringVal(b) : b \in UNION {[1..n -> Bytes] : n \in 0..MaxStrLen}}

\* what the int field len may hold before anything has written it
StaleLens == {0, MaxStrLen}

Min2(a, b) == IF a < b THEN a ELSE b

RECURSIVE MemCmpFrom(_, _, _, _)
MemCmpFrom(a, b, n, i) ==
    IF i > n THEN 0
    ELSE IF a[i] < b[i] THEN -1
    ELSE IF a[i] > b[i] THEN 1
    ELSE MemCmpFrom(a, b, n, i + 1)

\* memcmp(a, b, n): sign of the first differing byte among the first n
MemCmp(a, b, n) == MemCmpFrom(a, b, n, 1)

\* memcpy(value, val.ptr, val.len) into the buffer; copying 0 bytes changes nothing
MemCpy(buf, bytes) ==
    [i \in 1..Len(buf) |-> IF i <= Len(bytes) THEN bytes[i] ELSE buf[i]]

\* MinState::Set: grow the buffer if it is too short, copy the bytes, set len.
\* A fresh buffer of val.len bytes is overwritten whole by the copy.
MinStateSet(state, val) ==
    LET grow == state.buffer_len < Len(val.str)
        has == IF grow THEN TRUE ELSE state.has
        buf == IF grow THEN val.str ELSE state.buf
        buffer_len == IF grow THEN Len(val.str) ELSE state.buffer_len
    IN  [has |-> has, buf |-> MemCpy(buf, val.str), len |-> Len(val.str),
         buffer_len |-> buffer_len]

\* MinInit: value = NULL, buffer_len = 0; len is left as it was
MinInit(raw) == [raw EXCEPT !.has = FALSE, !.buf = <<>>, !.buffer_len = 0]

\* MinUpdate
MinUpdate(input, state) ==
    IF input.is_null THEN state
    ELSE IF ~state.has THEN MinStateSet(state, input)
    ELSE LET cmp == MemCmp(input.str, state.buf, Min2(Len(input.str), state.len))
         IN  IF cmp < 0 \/ (cmp = 0 /\ Len(input.str) < state.len)
             THEN MinStateSet(state, input)
             ELSE state

\* MinSerialize
MinSerialize(intermediate) == intermediate

\* MinMerge
MinMerge(src, dst) ==
    IF ~src.has THEN dst
    ELSE MinUpdate(StringVal(SubSeq(src.buf, 1, src.len)), dst)

\* MinFinalize
MinFinalize(state) ==
    IF ~state.has THEN NullString
    ELSE StringVal(SubSeq(state.buf, 1, state.len))

\* the harness starts an evaluation: two intermediate states, each through MinInit
MinStart ==
    /\ minRun.phase = "idle"
    /\ \E l1 \in StaleLens, l2 \in StaleLens :
        minRun' = [NoRun EXCEPT !.phase = "update",
                       !.cur = MinInit(RawMinState(l1)),
                       !.dst = MinInit(RawMinState(l2))]
    /\ UNCHANGED <<allocVars, countRun>>

\* the next input row goes through MinUpdate into the current partial state
MinUpdateRow ==
    /\ minRun.phase = "update"
    /\ Len(minRun.seen) < MaxInputs
    /\ \E input \in StringInputs :
        minRun' = [minRun EXCEPT !.seen = Append(@, input),
                       !.cur = MinUpdate(input, @),
                       !.pending = TRUE]
    /\ UNCHANGED <<allocVars, countRun>>

\* a split: the current partial state is serialized and merged into the
\* destination state, and a new partial state is started
MinMergePartial ==
    /\ minRun.phase = "update"
    /\ \E l \in StaleLens :
        minRun' = [minRun EXCEPT !.dst = MinMerge(MinSerialize(minRun.cur), @),
                       !.cur = MinInit(RawMinState(l)),
                       !.merged = TRUE, !.pending = FALSE]
    /\ UNCHANGED <<allocVars, countRun>>

\* MinFinalize on the only state when nothing was merged, else on the
\* destination state once every partial state has been merged into it
MinFinish ==
    /\ minRun.phase = "update"
    /\ ~minRun.merged \/ ~minRun.pending
    /\ minRun' = [minRun EXCEPT !.phase = "done",
                      !.result = MinFinalize(IF minRun.merged THEN minRun.dst
                                             ELSE minRun.cur)]
    /\ UNCHANGED <<allocVars, countRun>>

MinNext ==
    \/ MinStart
    \/ MinUpdateRow
    \/ MinMergePartial
    \/ MinFinish

SpecMin == Init /\ [][MinNext]_vars

(* ----------------------------- Count(int) ------------------------------ *)

\* IntVal::null()
NullInt == [is_null |-> TRUE, val |-> 0]

\* IntVal(v)
IntVal(v) == [is_null |-> FALSE, val |-> v]

\* BigIntVal(v)
BigIntVal(v) == [is_null |-> FALSE, val |-> v]

\* the input rows of Count: null, or an int (IntVal() holds 0)
IntInputs == {NullInt} \cup {IntVal(v) : v \in {0, 7}}

\* CountInit: val->is_null = false; val->val = 0;
CountInit == [is_null |-> FALSE, val |-> 0]

CountUpdateCountsNulls(input, val) == [val EXCEPT !.val = @ + 1]

\* CountUpdate: if (input.is_null) return; ++val->val;
CountUpdate(input, val) ==
    IF input.is_null THEN val ELSE [val EXCEPT !.val = @ + 1]

\* CountMerge: dst->val += src.val;
CountMerge(src, dst) == [dst EXCEPT !.val = @ + src.val]

\* CountFinalize: return val;
CountFinalize(val) == val

\* the harness starts an evaluation: two intermediate states, each through CountInit
CountStart ==
    /\ countRun.phase = "idle"
    /\ countRun' = [NoRun EXCEPT !.phase = "update", !.cur = CountInit,
                        !.dst = CountInit]
    /\ UNCHANGED <<allocVars, minRun>>

\* the next input row goes through CountUpdate into the current partial state
CountUpdateRow ==
    /\ countRun.phase = "update"
    /\ Len(countRun.seen) < MaxInputs
    /\ \E input \in IntInputs :
        countRun' = [countRun EXCEPT !.seen = Append(@, input),
                         !.cur = CountUpdate(input, @),
                         !.pending = TRUE]
    /\ UNCHANGED <<allocVars, minRun>>

\* a split: the current partial state is merged into the destination state
\* (no serialize function is given) and a new partial state is started
CountMergePartial ==
    /\ countRun.phase = "update"
    /\ countRun' = [countRun EXCEPT !.dst = CountMerge(countRun.cur, @),
                        !.cur = CountInit,
                        !.merged = TRUE, !.pending = FALSE]
    /\ UNCHANGED <<allocVars, minRun>>

\* CountFinalize on the only state when nothing was merged, else on the
\* destination state once every partial state has been merged into it
CountFinish ==
    /\ countRun.phase = "update"
    /\ ~countRun.merged \/ ~countRun.pending
    /\ countRun' = [countRun EXCEPT !.phase = "done",
                        !.result = CountFinalize(IF countRun.merged THEN countRun.dst
                                                 ELSE countRun.cur)]
    /\ UNCHANGED <<allocVars, minRun>>

CountNext ==
    \/ CountStart
    \/ CountUpdateRow
    \/ CountMergePartial
    \/ CountFinish

SpecCount == Init /\ [][CountNext]_vars

(* ----------------------------- properties ------------------------------ *)

RECURSIVE ProductFrom(_, _)
\* the mathematical product of dims[i..], without any width
ProductFrom(dims, i) ==
    IF i > Len(dims) THEN 1 ELSE dims[i] * ProductFrom(dims, i + 1)

\* N: the element count as a mathematical integer (0 when there is no dimension)
TrueNumElements(dims) == IF Len(dims) = 0 THEN 0 ELSE ProductFrom(dims, 1)

\* H(D) + N x E as a mathematical integer
TrueSize(dims, E) == ARR_OVERHEAD_NONULLS(Len(dims)) + TrueNumElements(dims) * E

\* N, N x E or H(D) + N x E does not fit in size_t
Overflows(dims, E) == TrueSize(dims, E) >= SizeMax

AllocatingOps == {"allocate", "reallocate", "allocateArray", "allocateByteString"}

Returned == call.outcome = "returned"

\* C1: an allocateArray call whose N, N x sizeof(T) or header + N x sizeof(T)
\* exceeds size_t fails with an overflow error and makes no host call.
C1_OverflowRejectedBeforeHostCall ==
    (call.op = "allocateArray" /\ Overflows(call.dims, call.elemSize))
        => (call.raised = "overflow" /\ call.hostCalls = <<>>)

\* C2: every non-null pointer returned by allocate, reallocate, allocateArray
\* or allocateByteString is a multiple of 16, whatever address the host gave.
C2_ReturnedPointersAligned ==
    (call.op \in AllocatingOps /\ Returned /\ call.ret # NULL)
        => call.ret % Alignment = 0

\* C3: for every tuple of dimension sizes whose byte size fits in size_t, on a
\* host that succeeds, the block records dimensionality D and size d_i for
\* every index i, in argument order.
C3_HandleRecordsDims ==
    (call.op = "allocateArray" /\ ~Overflows(call.dims, call.elemSize)
        /\ call.raw # NULL /\ Returned)
        => /\ call.handle.ndims = Len(call.dims)
           /\ \A i \in 1..Len(call.dims) : call.handle.dims[i] = call.dims[i]

\* C4: whenever the true byte size fits in size_t, allocateArray asks the host
\* for exactly H(D) + N x E bytes, in exactly one host call (N = 0 and size
\* H(0) when D = 0).
C4_RequestedSizeExact ==
    (call.op = "allocateArray" /\ ~Overflows(call.dims, call.elemSize))
        => /\ Len(call.hostCalls) = 1
           /\ call.hostCalls[1].prim = "Allocate"
           /\ call.hostCalls[1].size =
                ARR_OVERHEAD_NONULLS(Len(call.dims))
                    + TrueNumElements(call.dims) * call.elemSize

\* allocateArray<int32, 2>(3, 4) has asked the host for H(2) + 48 bytes
C4_Witness ==
    /\ call.op = "allocateArray"
    /\ call.dims = <<3, 4>>
    /\ call.elemSize = 4
    /\ call.raw # NULL
    /\ call.hostCalls[1].size = ARR_OVERHEAD_NONULLS(2) + 48

\* C5: when the host primitive returns null, the call follows its OnFailure
\* policy: ThrowBadAlloc raises an allocation error, ReturnNULL returns null
\* and raises nothing; nothing is written through the null block.
C5_FailurePolicyFollowed ==
    (call.op \in AllocatingOps /\ call.raw = NULL)
        => /\ call.F = "ThrowBadAlloc" => call.raised = "bad_alloc"
           /\ call.F = "ReturnNULL" => (call.ret = NULL /\ call.raised = "none")
           /\ call.ub # "null_write"

\* the bytes of the returned block that the facade did not itself write as
\* header: the whole block for allocate and allocateByteString, the N x E
\* payload bytes for allocateArray
UnwrittenBytes ==
    IF call.op = "allocateArray" THEN call.handle.len * call.elemSize
    ELSE call.hostCalls[1].size

\* C6: with ZeroMemory = DoZero (always so for allocateArray and
\* allocateByteString) every byte of the returned block, or every payload byte
\* of the array, is zero even when the host does not zero-fill.
C6_DoZeroBlocksAreZero ==
    (call.op \in {"allocate", "allocateArray", "allocateByteString"}
        /\ call.ZM = "DoZero" /\ call.raw # NULL /\ Returned /\ UnwrittenBytes > 0)
        => call.fill = "zero"

\* C7: for every block returned by allocateArray the payload pointer is block
\* start + H(D), so the D-entry dimension table, which follows the fixed header,
\* ends at or before the payload.
C7_PayloadAfterHeader ==
    (call.op = "allocateArray" /\ ~Overflows(call.dims, call.elemSize)
        /\ call.raw # NULL /\ Returned)
        => /\ call.handle.ptr = call.ret + ARR_OVERHEAD_NONULLS(Len(call.dims))
           /\ call.ret + sizeofArrayType + Len(call.dims) * DimFieldSize
                <= call.handle.ptr

C9_FreeNullIsNoOp ==
    [][(call'.op = "free" /\ call'.inPtr = NULL)
        => /\ call'.hostCalls = <<>>
           /\ hostLive' = hostLive
           /\ owned' = owned
           /\ call'.raised = "none"
           /\ call'.outcome = "returned"]_vars

\* free(null) has been called while the host holds a live block
C9_Witness ==
    /\ call.op = "free"
    /\ call.inPtr = NULL
    /\ call.hostCalls = <<>>
    /\ hostLive # {}

\* C10: every pointer the facade hands to the host's free or reallocate
\* primitive is one the host itself returned earlier and still holds, never an
\* address derived from it.
C10_HostGetsOriginalPointers ==
    [][\A i \in 1..Len(call'.hostCalls) :
        call'.hostCalls[i].prim \in {"Free", "Realloc"}
            => call'.hostCalls[i].ptr \in hostLive]_vars

\* a block the host placed at an address that is no multiple of 16 has been
\* reallocated or freed through the facade
C10_Witness ==
    /\ call.op \in {"free", "reallocate"}
    /\ call.hostCalls # <<>>
    /\ call.hostCalls[1].ptr % Alignment # 0

RECURSIVE StrLessFrom(_, _, _)
\* a orders before b from byte i on: bytewise, a proper prefix first
StrLessFrom(a, b, i) ==
    IF i > Len(a) THEN i <= Len(b)
    ELSE IF i > Len(b) THEN FALSE
    ELSE IF a[i] # b[i] THEN a[i] < b[i]
    ELSE StrLessFrom(a, b, i + 1)

StrLess(a, b) == StrLessFrom(a, b, 1)

\* the non-null strings among the rows given
NonNullStrings(rows) == {rows[i].str : i \in {j \in 1..Len(rows) : ~rows[j].is_null}}

\* the smallest non-null input, or null when every input is null
ExpectedMin(rows) ==
    IF NonNullStrings(rows) = {} THEN NullString
    ELSE StringVal(CHOOSE m \in NonNullStrings(rows) :
            \A o \in NonNullStrings(rows) : o = m \/ StrLess(m, o))

\* C11: MinInit, MinUpdate on each input (partial states merged by MinMerge
\* at any split) and MinFinalize return the smallest non-null input, a proper
\* prefix ordering before the longer string, and null exactly when every
\* input is null.
C11_MinReturnsSmallest ==
    minRun.phase = "done" => minRun.result = ExpectedMin(minRun.seen)

\* C11 restricted to non-empty strings: the same statement over inputs that
\* are null or at least one byte long
C11_MinOfNonEmptyInputs ==
    (minRun.phase = "done"
        /\ \A i \in 1..Len(minRun.seen) :
            minRun.seen[i].is_null \/ Len(minRun.seen[i].str) > 0)
        => minRun.result = ExpectedMin(minRun.seen)

\* how many of the rows given are not null
NonNullCount(rows) == Cardinality({i \in 1..Len(rows) : ~rows[i].is_null})

\* C12: CountInit, CountUpdate on each input (partial states merged by
\* CountMerge at any split) and CountFinalize return exactly the number of
\* non-null inputs, and no other value.
C12_CountIsNonNullInputs ==
    countRun.phase = "done"
        => countRun.result = BigIntVal(NonNullCount(countRun.seen))

\* a count has been returned for rows that hold both a null and a non-null
\* input and were split into merged partial states
C12_Witness ==
    /\ countRun.phase = "done"
    /\ countRun.merged
    /\ \E i \in 1..Len(countRun.seen) : countRun.seen[i].is_null
    /\ NonNullCount(countRun.seen) >= 2
    /\ countRun.result.val = NonNullCount(countRun.seen)

====
